---- MODULE Spec2Model ----
(***************************************************************************)
(* Health-data ingestion (api/ingest.py) and retrieval (api/data.py).      *)
(*                                                                         *)
(* Text is a sequence of one-character strings, so that lower(), strip(),  *)
(* split() and substring tests are computed character by character.       *)
(* Python floats are fixed-point integers in units of 1/Scale; the raw     *)
(* inputs enumerated below carry at most two fractional digits and no      *)
(* exponent, underscore, inf or nan forms.                                 *)
(***************************************************************************)
EXTENDS Integers, Sequences, FiniteSets, TLC

VARIABLES
    API_KEY,      \* module constant read from the environment
    local_tz,     \* UTC offset (hours) of the host's local time zone
    clock,        \* wall clock, hours since the epoch (UTC)
    store,        \* the key-value store: storage key -> stored text
    pc,           \* position of each ingest request in do_POST
    req,          \* the request each ingest handler has received
    form_data,    \* do_POST local
    date_key,     \* do_POST local
    existing,     \* do_POST local
    health_data,  \* do_POST local
    stamped,      \* history: the clock when do_POST took its timestamp
    resp,         \* last response of each ingest handler
    get_resp,     \* last response of the retrieval handler
    overlapped,   \* history: two authorized ingests have been in flight together
    last_write,   \* history: storage key -> stamp of the latest set
    max_stamp,    \* history: storage key -> greatest stamp of any set
    completed,    \* history: the successful ingests (storage key, field names)
    phase,        \* position of the statistics pipeline
    raw,          \* statistics pipeline: raw field text
    key,          \* statistics pipeline: metric name
    values,       \* statistics pipeline: parsed samples
    result        \* statistics pipeline: computed summary

vars == <<API_KEY, local_tz, clock, store, pc, req, form_data, date_key,
          existing, health_data, stamped, resp, get_resp, overlapped, last_write, max_stamp,
          completed, phase, raw, key, values, result>>

handlerVars == <<API_KEY, local_tz, clock, store, pc, req, form_data, date_key,
                 existing, health_data, stamped, resp, get_resp, overlapped, last_write,
                 max_stamp, completed>>

statsVars == <<phase, raw, key, values, result>>

----------------------------------------------------------------------------
\* Bounds of the model.

MaxLen == 3        \* longest enumerated sample sequence
MaxTicks == 1      \* number of clock steps
MaxDays == 1       \* largest enumerated days parameter

----------------------------------------------------------------------------
\* Text helpers (Python str methods).

Scale == 100

Max2(a, b) == IF a >= b THEN a ELSE b
Min2(a, b) == IF a <= b THEN a ELSE b

UpperAlpha == <<"A","B","C","D","E","F","G","H","I","J","K","L","M",
                "N","O","P","Q","R","S","T","U","V","W","X","Y","Z">>
LowerAlpha == <<"a","b","c","d","e","f","g","h","i","j","k","l","m",
                "n","o","p","q","r","s","t","u","v","w","x","y","z">>

LowerChar(c) ==
    IF \E i \in DOMAIN UpperAlpha : UpperAlpha[i] = c
    THEN LowerAlpha[CHOOSE i \in DOMAIN UpperAlpha : UpperAlpha[i] = c]
    ELSE c

\* str.lower()
Lower(s) == [i \in DOMAIN s |-> LowerChar(s[i])]

IsSpace(c) == c \in {" ", "\t", "\n", "\r"}

RECURSIVE LStrip(_)
LStrip(s) == IF s # << >> /\ IsSpace(Head(s)) THEN LStrip(Tail(s)) ELSE s

RECURSIVE RStrip(_)
RStrip(s) ==
    IF s # << >> /\ IsSpace(s[Len(s)]) THEN RStrip(SubSeq(s, 1, Len(s) - 1)) ELSE s

\* str.strip()
Strip(s) == RStrip(LStrip(s))

\* needle in s
Contains(s, needle) ==
    \E i \in 0..(Len(s) - Len(needle)) : SubSeq(s, i + 1, i + Len(needle)) = needle

\* s.replace("\r\n", "\n")
RECURSIVE ReplaceCRLF(_)
ReplaceCRLF(s) ==
    IF s = << >> THEN << >>
    ELSE IF Len(s) >= 2 /\ s[1] = "\r" /\ s[2] = "\n"
         THEN <<"\n">> \o ReplaceCRLF(SubSeq(s, 3, Len(s)))
         ELSE <<Head(s)>> \o ReplaceCRLF(Tail(s))

\* s.replace("\r", "\n")
ReplaceCR(s) == [i \in DOMAIN s |-> IF s[i] = "\r" THEN "\n" ELSE s[i]]

\* s.split("\n")
RECURSIVE SplitLines(_)
SplitLines(s) ==
    IF \E i \in DOMAIN s : s[i] = "\n"
    THEN LET i == CHOOSE j \in DOMAIN s :
                      s[j] = "\n" /\ \A m \in 1..(j - 1) : s[m] # "\n"
         IN  <<SubSeq(s, 1, i - 1)>> \o SplitLines(SubSeq(s, i + 1, Len(s)))
    ELSE <<s>>

\* The percent escapes of the input alphabet.
PercentCodes ==
    (<<"0","A">> :> "\n") @@ (<<"0","a">> :> "\n") @@ (<<"0","D">> :> "\r")
    @@ (<<"0","d">> :> "\r") @@ (<<"2","0">> :> " ") @@ (<<"2","5">> :> "%")

\* urllib.parse.unquote
RECURSIVE Unquote(_)
Unquote(s) ==
    IF s = << >> THEN << >>
    ELSE IF Len(s) >= 3 /\ s[1] = "%" /\ <<s[2], s[3]>> \in DOMAIN PercentCodes
         THEN <<PercentCodes[<<s[2], s[3]>>]>> \o Unquote(SubSeq(s, 4, Len(s)))
         ELSE <<Head(s)>> \o Unquote(Tail(s))

Digits == <<"0","1","2","3","4","5","6","7","8","9">>

IsDigit(c) == \E i \in DOMAIN Digits : Digits[i] = c

DigitVal(c) == (CHOOSE i \in DOMAIN Digits : Digits[i] = c) - 1

RECURSIVE DigitsVal(_)
DigitsVal(s) ==
    IF s = << >> THEN 0 ELSE DigitsVal(SubSeq(s, 1, Len(s) - 1)) * 10 + DigitVal(s[Len(s)])

\* The unsigned part of a decimal literal: digits, optionally a point and digits.
IsDecimal(s) ==
    LET dots == {i \in DOMAIN s : s[i] = "."}
    IN  /\ Cardinality(dots) <= 1
        /\ \A i \in DOMAIN s : IsDigit(s[i]) \/ s[i] = "."
        /\ \E i \in DOMAIN s : IsDigit(s[i])

DecimalVal(s) ==
    LET dots == {i \in DOMAIN s : s[i] = "."}
        p    == IF dots = {} THEN Len(s) + 1 ELSE CHOOSE i \in dots : TRUE
        int  == SubSeq(s, 1, p - 1)
        frac == SubSeq(s, p + 1, Len(s))
        f2   == SubSeq(frac \o <<"0", "0">>, 1, 2)
    IN  DigitsVal(int) * Scale + DigitsVal(f2)

HasSign(s) == s # << >> /\ Head(s) \in {"+", "-"}

\* float(v) succeeds
IsFloat(s) == IsDecimal(IF HasSign(s) THEN Tail(s) ELSE s)

\* float(v), in units of 1/Scale
FloatVal(s) ==
    IF HasSign(s)
    THEN (IF Head(s) = "-" THEN -1 ELSE 1) * DecimalVal(Tail(s))
    ELSE DecimalVal(s)

\* A sample: a float or a str.
Num(n) == [t |-> "num", v |-> n, s |-> << >>]
Text(s) == [t |-> "text", v |-> 0, s |-> s]

RECURSIVE ParseLines(_)
ParseLines(lines) ==
    IF lines = << >> THEN << >>
    ELSE LET v == Strip(Head(lines))
         IN  (IF v = << >> THEN << >>
              ELSE IF IsFloat(v) THEN <<Num(FloatVal(v))>> ELSE <<Text(v)>>)
             \o ParseLines(Tail(lines))

parse_values(r) == ParseLines(SplitLines(ReplaceCR(ReplaceCRLF(Unquote(r)))))

----------------------------------------------------------------------------
\* Arithmetic helpers.

\* round(a / b) for b > 0: nearest integer, ties to the even one.
RoundHalfEven(a, b) ==
    LET q == a \div b
        r == a - q * b
    IN  IF 2 * r < b THEN q
        ELSE IF 2 * r > b THEN q + 1
        ELSE IF q % 2 = 0 THEN q ELSE q + 1

\* round(x, 1) of a value held in units of 1/Scale
Round1(x) == RoundHalfEven(x, 10) * 10

RECURSIVE SumSeq(_)
SumSeq(s) == IF s = << >> THEN 0 ELSE Head(s) + SumSeq(Tail(s))

MinSeq(s) == CHOOSE x \in {s[i] : i \in DOMAIN s} : \A j \in DOMAIN s : x <= s[j]
MaxSeq(s) == CHOOSE x \in {s[i] : i \in DOMAIN s} : \A j \in DOMAIN s : x >= s[j]

\* [v for v in values if isinstance(v, (int, float))]
Nums(vals) ==
    LET kept == SelectSeq(vals, LAMBDA v : v.t = "num")
    IN  [i \in DOMAIN kept |-> kept[i].v]

EmptyDict == << >>

\* d[k] = v
Put(d, k, v) == [x \in (DOMAIN d) \cup {k} |-> IF x = k THEN v ELSE d[x]]

----------------------------------------------------------------------------
\* Text constants of the source.

sREM == <<"R","E","M">>
sCore == <<"C","o","r","e">>
sLight == <<"L","i","g","h","t">>
sDeep == <<"D","e","e","p">>
sAwake == <<"A","w","a","k","e">>
sWake == <<"W","a","k","e">>
sSleep == <<"s","l","e","e","p">>
sBloodGlucose == <<"b","l","o","o","d","g","l","u","c","o","s","e">>
sHeartRate == <<"h","e","a","r","t","r","a","t","e">>
sBloodPressure == <<"b","l","o","o","d","p","r","e","s","s","u","r","e">>
sSystolic == sBloodPressure \o <<"s","y","s","t","o","l","i","c">>
sDiastolic == sBloodPressure \o <<"d","i","a","s","t","o","l","i","c">>
sUpdated == <<"_","u","p","d","a","t","e","d">>

----------------------------------------------------------------------------
\* The statistics functions.

\* hr_zone with every upper bound inclusive.
hr_zone_inclusive(hr) ==
    IF hr <= 100 * Scale THEN "rest"
    ELSE IF hr <= 120 * Scale THEN "light"
    ELSE IF hr <= 140 * Scale THEN "moderate"
    ELSE IF hr <= 160 * Scale THEN "hard"
    ELSE "max"

\* The if/elif chain of compute_hr_zones.
hr_zone(hr) ==
    IF hr < 100 * Scale THEN "rest"
    ELSE IF hr < 120 * Scale THEN "light"
    ELSE IF hr < 140 * Scale THEN "moderate"
    ELSE IF hr < 160 * Scale THEN "hard"
    ELSE "max"

\* compute_hr_zones with the hard zone left out of both loads.
compute_hr_zones_no_hard(vals) ==
    LET nums  == Nums(vals)
        n(z)  == Len(SelectSeq(nums, LAMBDA hr : hr_zone(hr) = z))
        zones == [rest |-> n("rest"), light |-> n("light"),
                  moderate |-> n("moderate"), hard |-> n("hard"), max |-> n("max")]
        total == Len(nums)
    IN  IF nums = << >> THEN EmptyDict
        ELSE [zones |-> zones,
              zone_pct |-> [z \in DOMAIN zones |-> RoundHalfEven(zones[z] * 100, total)],
              training_load |-> zones.moderate + zones.max,
              high_intensity |-> zones.max]

compute_hr_zones(vals) ==
    LET nums  == Nums(vals)
        n(z)  == Len(SelectSeq(nums, LAMBDA hr : hr_zone(hr) = z))
        zones == [rest |-> n("rest"), light |-> n("light"),
                  moderate |-> n("moderate"), hard |-> n("hard"), max |-> n("max")]
        total == Len(nums)
    IN  IF nums = << >> THEN EmptyDict
        ELSE [zones |-> zones,
              zone_pct |-> [z \in DOMAIN zones |-> RoundHalfEven(zones[z] * 100, total)],
              training_load |-> zones.moderate + zones.hard + zones.max,
              high_intensity |-> zones.hard + zones.max]

\* The if/elif chain of compute_sleep_stats; "" for a sample counted nowhere.
sleep_stage(v) ==
    IF v.t # "text" THEN ""
    ELSE IF Contains(v.s, sREM) THEN "REM"
    ELSE IF Contains(v.s, sCore) \/ Contains(v.s, sLight) THEN "Core"
    ELSE IF Contains(v.s, sDeep) THEN "Deep"
    ELSE IF Contains(v.s, sAwake) \/ Contains(v.s, sWake) THEN "Awake"
    ELSE ""

compute_sleep_stats(vals) ==
    LET n(z)   == Len(SelectSeq(vals, LAMBDA v : sleep_stage(v) = z))
        stages == [REM |-> n("REM"), Core |-> n("Core"), Deep |-> n("Deep"),
                   Awake |-> n("Awake")]
        total  == stages.REM + stages.Core + stages.Deep + stages.Awake
        fragmentation == RoundHalfEven(stages.Awake * 100 * Scale, total * 10) * 10
        quality ==
            IF fragmentation < 20 * Scale /\ stages.REM > 0 /\ stages.Deep > 0
            THEN "good"
            ELSE IF fragmentation < 35 * Scale THEN "fair" ELSE "poor"
    IN  IF total = 0 THEN [values |-> vals]
        ELSE [stages |-> stages, fragmentation_pct |-> fragmentation,
              quality |-> quality, has_rem |-> stages.REM > 0,
              has_deep |-> stages.Deep > 0]

compute_blood_pressure_stats(systolic_values, diastolic_values) ==
    LET s_all == Nums(systolic_values)
        d_all == Nums(diastolic_values)
        count == Min2(Len(s_all), Len(d_all))
        s     == SubSeq(s_all, 1, count)
        d     == SubSeq(d_all, 1, count)
        elevated ==
            Cardinality({i \in 1..count : s[i] >= 140 * Scale \/ d[i] >= 90 * Scale})
    IN  IF s_all = << >> \/ d_all = << >> THEN [count |-> 0]
        ELSE [systolic_avg |-> RoundHalfEven(SumSeq(s), count * 10) * 10,
              systolic_min |-> Round1(MinSeq(s)),
              systolic_max |-> Round1(MaxSeq(s)),
              diastolic_avg |-> RoundHalfEven(SumSeq(d), count * 10) * 10,
              diastolic_min |-> Round1(MinSeq(d)),
              diastolic_max |-> Round1(MaxSeq(d)),
              count |-> count,
              elevated_readings |-> elevated]

\* round(sqrt(d) / m, 1) in units of 1/Scale, for d >= 0 and m > 0 in those
\* units and a result of at most hi tenths: the number of tenths t >= 1 with
\* ((2t - 1) * 5 * m)^2 <= d.
RoundedRoot(d, m, hi) ==
    Cardinality({t \in 1..hi : ((2 * t - 1) * 5 * m) * ((2 * t - 1) * 5 * m) <= d}) * 10

compute_blood_glucose_stats(vals) ==
    LET nums  == Nums(vals)
        count == Len(nums)
        sum   == SumSeq(nums)
        \* variance ** 0.5 = sqrt(count * dsq - dsum^2) / count, where dsum and
        \* dsq sum the deviations from the least sample and their squares
        \* (the variance does not change under a shift; this one keeps the
        \* products within 32 bits)
        dev   == [i \in DOMAIN nums |-> nums[i] - MinSeq(nums)]
        dsum  == SumSeq(dev)
        dsq   == SumSeq([i \in DOMAIN dev |-> dev[i] * dev[i]])
        in_range ==
            Len(SelectSeq(nums, LAMBDA v : 70 * Scale <= v /\ v <= 180 * Scale))
    IN  IF nums = << >> THEN [count |-> 0]
        ELSE [avg |-> RoundHalfEven(sum, count * 10) * 10,
              min |-> Round1(MinSeq(nums)),
              max |-> Round1(MaxSeq(nums)),
              std_dev |-> RoundedRoot(count * dsq - dsum * dsum, count,
                                     MaxSeq(dev) \div 20 + 1),
              count |-> count,
              in_range_pct |-> RoundHalfEven(in_range * 100 * Scale, count * 10) * 10]

\* generic_stats counting the numeric samples in both branches.
generic_stats_numeric_count(vals, key_lower) ==
    LET nums == Nums(vals)
    IN  IF nums = << >> THEN [count |-> Len(nums)]
        ELSE [avg |-> RoundHalfEven(SumSeq(nums), Len(nums)),
              min |-> MinSeq(nums),
              max |-> MaxSeq(nums),
              count |-> Len(nums)]

\* The generic summary of compute_stats (lines after the two early returns).
generic_stats(vals, key_lower) ==
    LET nums == Nums(vals)
        base == [avg |-> RoundHalfEven(SumSeq(nums), Len(nums)),
                 min |-> MinSeq(nums),
                 max |-> MaxSeq(nums),
                 count |-> Len(nums)]
    IN  IF nums = << >> THEN [count |-> Len(vals)]
        ELSE IF key_lower = sHeartRate
             THEN [avg |-> base.avg, min |-> base.min, max |-> base.max,
                   count |-> base.count, hr_zones |-> compute_hr_zones([i \in DOMAIN nums |-> Num(nums[i])])]
             ELSE base

compute_stats(vals, k) ==
    LET key_lower == Strip(Lower(k))
    IN  IF key_lower = sSleep THEN compute_sleep_stats(vals)
        ELSE IF key_lower = sBloodGlucose THEN compute_blood_glucose_stats(vals)
        ELSE generic_stats(vals, key_lower)

----------------------------------------------------------------------------
\* Time, the store and JSON.

PacificOffset == -8
HoursPerDay == 24
DefaultDays == 7

\* One clock step: the width of the Pacific offset.
TickHours == -PacificOffset

\* strftime("%Y-%m-%d") of the time t (hours, UTC) shifted by an offset: the day.
date_str(t, offset) == [day |-> (t + offset) \div HoursPerDay]

\* isoformat() of the time t in the fixed Pacific offset.
isoformat(t) ==
    [day |-> (t + PacificOffset) \div HoursPerDay,
     hour |-> (t + PacificOffset) % HoursPerDay,
     offset |-> PacificOffset]

\* f"health:{date}"
redis_key(d) == <<"health:", d>>

\* Stored text is a JSON document, or something else an outside writer left.
None == [kind |-> "none", doc |-> EmptyDict]
json_dumps(d) == [kind |-> "json", doc |-> d]
EmptyText == [kind |-> "empty", doc |-> EmptyDict]       \* ""
GarbageText == [kind |-> "garbage", doc |-> EmptyDict]   \* not JSON
ScalarText == [kind |-> "scalar", doc |-> EmptyDict]     \* JSON, but no object

\* Python truth of a get() result
Truthy(x) == x.kind \notin {"none", "empty"}

\* redis_get that never finds the key.
redis_get_miss(st, k) == None

\* redis.get(k)
redis_get(st, k) == IF k \in DOMAIN st THEN st[k] ELSE None

\* json.loads(existing) if existing else {}, and the item assignments that
\* follow, raise unless the text is a JSON object.
LoadRaises(x) == Truthy(x) /\ x.kind # "json"
LoadOrEmpty(x) == IF Truthy(x) /\ x.kind = "json" THEN x.doc ELSE EmptyDict

----------------------------------------------------------------------------
\* Authentication.

bearer(k) == "Bearer " \o k

\* headers.get("Authorization", "") of the enumerated requests
AuthHeaders == {"", bearer("k1"), bearer("k2")}

\* check_auth accepting any credential that is present.
check_auth_any(api_key, auth) ==
    IF api_key = "" THEN TRUE ELSE auth # ""

check_auth(api_key, auth) ==
    IF api_key = "" THEN TRUE ELSE auth = bearer(api_key)

----------------------------------------------------------------------------
\* The merge of do_POST.

IsSystolic(name) == Contains(Lower(name), sSystolic)
IsDiastolic(name) == Contains(Lower(name), sDiastolic)

\* The key a scan of form_data.keys() leaves in bp_systolic_key (<< >>: None).
bp_systolic_key(form) ==
    LET hits == {i \in DOMAIN form : IsSystolic(form[i].name)}
    IN  IF hits = {} THEN << >>
        ELSE form[CHOOSE i \in hits : \A j \in hits : j <= i].name

bp_diastolic_key(form) ==
    LET hits == {i \in DOMAIN form :
                    ~IsSystolic(form[i].name) /\ IsDiastolic(form[i].name)}
    IN  IF hits = {} THEN << >>
        ELSE form[CHOOSE i \in hits : \A j \in hits : j <= i].name

\* form_data[k][0] if form_data[k] else ""
FirstValue(form, k) ==
    LET f == form[CHOOSE i \in DOMAIN form : form[i].name = k]
    IN  IF f.values = << >> THEN << >> ELSE Head(f.values)

merge_blood_pressure(hd, form) ==
    LET sk == bp_systolic_key(form)
        dk == bp_diastolic_key(form)
    IN  IF sk # << >> /\ dk # << >>
        THEN Put(hd, sBloodPressure,
                 compute_blood_pressure_stats(parse_values(FirstValue(form, sk)),
                                              parse_values(FirstValue(form, dk))))
        ELSE hd

RECURSIVE merge_metrics(_, _)
merge_metrics(hd, form) ==
    IF form = << >> THEN hd
    ELSE LET f == Head(form)
         IN  IF IsSystolic(f.name) \/ IsDiastolic(f.name)
             THEN merge_metrics(hd, Tail(form))
             ELSE merge_metrics(
                      Put(hd, f.name,
                          compute_stats(parse_values(
                              IF f.values = << >> THEN << >> ELSE Head(f.values)),
                              f.name)),
                      Tail(form))

\* stamp_updated that keeps a timestamp already in the record.
stamp_updated_once(hd, now) ==
    IF sUpdated \in DOMAIN hd THEN hd ELSE Put(hd, sUpdated, isoformat(now))

stamp_updated(hd, now) == Put(hd, sUpdated, isoformat(now))

\* merge_record that starts from an empty record.
merge_record_fresh(prior, form, now) ==
    stamp_updated(merge_metrics(merge_blood_pressure(EmptyDict, form), form), now)

merge_record(prior, form, now) ==
    stamp_updated(merge_metrics(merge_blood_pressure(prior, form), form), now)

----------------------------------------------------------------------------
\* The enumerated requests.  A form is parse_qs(body): field names in body
\* order, each with its list of values.

Procs == {1, 2}

fHeartRate == <<"H","e","a","r","t","R","a","t","e">>
fSteps == <<"s","t","e","p","s">>
fSleep == <<"S","l","e","e","p">>
fSystolic ==
    <<"B","l","o","o","d","P","r","e","s","s","u","r","e","S","y","s","t","o",
      "l","i","c">>
fDiastolic ==
    <<"b","l","o","o","d","p","r","e","s","s","u","r","e","d","i","a","s","t",
      "o","l","i","c">>

rHeart == <<"6","5","\n","7","2","\n","1","4","5","\n">>
rHeartB == <<"1","0","0","%","0","A","1","6","0">>
rSteps == <<"1","2","0","\r","\n","8","0">>
rSys == <<"1","2","0","\n","1","5","0">>
rDia == <<"8","0","\n","9","5">>
rSys1 == <<"1","2","0">>
rDia1 == <<"8","0">>
rFive == <<"5">>
rSeven == <<"7">>
rSleepy ==
    <<"C","o","r","e","\n","R","E","M","\n","A","w","a","k","e","\n","A","w",
      "a","k","e","\n">>

Field(name, value) == [name |-> name, values |-> <<value>>]

Forms ==
    { <<Field(fHeartRate, rHeart), Field(fSteps, rSteps)>>,
      <<Field(fHeartRate, rHeartB), Field(fSystolic, rSys1)>>,
      <<Field(fSystolic, rSys), Field(fDiastolic, rDia)>>,
      <<Field(fSystolic, rSys1), Field(fDiastolic, rDia1),
        Field(sBloodPressure, rFive)>>,
      <<Field(fSteps, rSeven), Field(sUpdated, rFive)>> }

\* query.get("days", [7])[0]: << >> when the parameter is absent
DaysInputs == {<< >>} \cup {<<n>> : n \in 0..MaxDays}

FieldNames(form) == {form[i].name : i \in DOMAIN form}

keys_list(form) == [i \in DOMAIN form |-> form[i].name]

NoRequest == [auth |-> "", form |-> << >>]
NoResponse == [proc |-> 0, status |-> 0, body |-> [none |-> TRUE]]
NoGetResponse == [status |-> 0, auth |-> "", days |-> << >>, body |-> [none |-> TRUE]]
NoDate == [day |-> 0]

Unauthorized == [error |-> "unauthorized"]

\* No response is on its way to a client.
Quiet == resp = NoResponse /\ get_resp = NoGetResponse

\* What every ingest step leaves alone.
IngestFrame ==
    /\ UNCHANGED <<API_KEY, local_tz, clock, get_resp>>
    /\ UNCHANGED statsVars

----------------------------------------------------------------------------
\* Ingestion: do_POST, one action per interaction with the clock or the store.

\* A POST request reaches the server, which creates a handler instance for it;
\* the instances are taken in order.
Arrive(p) ==
    /\ Quiet
    /\ pc[p] = "idle"
    /\ \A q \in Procs : q < p => pc[q] # "idle"
    /\ \E auth \in AuthHeaders, form \in Forms :
        req' = [req EXCEPT ![p] = [auth |-> auth, form |-> form]]
    /\ pc' = [pc EXCEPT ![p] = "auth"]
    /\ UNCHANGED <<store, form_data, date_key, existing, health_data, stamped, resp,
                   overlapped, last_write, max_stamp, completed>>
    /\ IngestFrame

\* check_auth; then read the body and take the storage date.
Authenticate(p) ==
    /\ Quiet
    /\ pc[p] = "auth"
    /\ IF ~check_auth(API_KEY, req[p].auth)
       THEN /\ resp' = [proc |-> p, status |-> 401, body |-> Unauthorized]
            /\ pc' = [pc EXCEPT ![p] = "done"]
            /\ UNCHANGED <<form_data, date_key, overlapped>>
       ELSE /\ pc' = [pc EXCEPT ![p] = "get"]
            /\ form_data' = [form_data EXCEPT ![p] = req[p].form]
            /\ date_key' = [date_key EXCEPT ![p] = date_str(clock, PacificOffset)]
            /\ overlapped' =
                   (overlapped \/ \E q \in Procs \ {p} : pc[q] \in {"get", "merge", "set"})
            /\ UNCHANGED resp
    /\ req' = [req EXCEPT ![p] = NoRequest]
    /\ UNCHANGED <<store, existing, health_data, stamped, last_write, max_stamp,
                   completed>>
    /\ IngestFrame

\* existing = redis.get(redis_key)
Get(p) ==
    /\ Quiet
    /\ pc[p] = "get"
    /\ existing' = [existing EXCEPT ![p] = redis_get(store, redis_key(date_key[p]))]
    /\ pc' = [pc EXCEPT ![p] = "merge"]
    /\ UNCHANGED <<store, req, form_data, date_key, health_data, stamped, resp,
                   overlapped, last_write, max_stamp, completed>>
    /\ IngestFrame

\* json.loads, the two processing passes and the timestamp; an exception ends
\* the request with nothing written.
Merge(p) ==
    /\ Quiet
    /\ pc[p] = "merge"
    /\ IF LoadRaises(existing[p])
       THEN /\ resp' = [proc |-> p, status |-> 500, body |-> [none |-> TRUE]]
            /\ pc' = [pc EXCEPT ![p] = "done"]
            /\ form_data' = [form_data EXCEPT ![p] = << >>]
            /\ existing' = [existing EXCEPT ![p] = None]
            /\ date_key' = [date_key EXCEPT ![p] = NoDate]
            /\ UNCHANGED <<health_data, stamped>>
       ELSE /\ health_data' = [health_data EXCEPT ![p] =
                    merge_record(LoadOrEmpty(existing[p]), form_data[p], clock)]
            /\ stamped' = [stamped EXCEPT ![p] = clock]
            /\ pc' = [pc EXCEPT ![p] = "set"]
            /\ UNCHANGED <<resp, form_data, existing, date_key>>
    /\ UNCHANGED <<store, req, overlapped, last_write, max_stamp, completed>>
    /\ IngestFrame

\* redis.set(redis_key, json.dumps(health_data)) and the 200 response.
Set(p) ==
    /\ Quiet
    /\ pc[p] = "set"
    /\ LET rk == redis_key(date_key[p])
       IN  /\ store' = Put(store, rk, json_dumps(health_data[p]))
           /\ last_write' = Put(last_write, rk, stamped[p])
           /\ max_stamp' = Put(max_stamp, rk,
                               IF rk \in DOMAIN max_stamp
                               THEN Max2(max_stamp[rk], stamped[p]) ELSE stamped[p])
           /\ completed' = completed \cup
                               {[rk |-> rk, names |-> FieldNames(form_data[p])]}
    /\ resp' = [proc |-> p, status |-> 200,
                body |-> [ok |-> TRUE, date |-> date_key[p],
                          keys |-> keys_list(form_data[p])]]
    /\ pc' = [pc EXCEPT ![p] = "done"]
    /\ form_data' = [form_data EXCEPT ![p] = << >>]
    /\ existing' = [existing EXCEPT ![p] = None]
    /\ health_data' = [health_data EXCEPT ![p] = EmptyDict]
    /\ stamped' = [stamped EXCEPT ![p] = 0]
    /\ date_key' = [date_key EXCEPT ![p] = NoDate]
    /\ UNCHANGED <<req, overlapped>>
    /\ IngestFrame

----------------------------------------------------------------------------
\* Retrieval: do_GET of api/data.py.

\* The dates the loop visits: local time now, minus i days.
visited_dates(now, tz, days) ==
    {[day |-> date_str(now, tz).day - i] : i \in 0..(days - 1)}

\* json.loads(data) of a stored text
json_loads(x) == IF x.kind = "json" THEN x.doc ELSE [scalar |-> TRUE]

get_results(st, now, tz, days) ==
    LET hit == {d \in visited_dates(now, tz, days) :
                   Truthy(redis_get(st, redis_key(d)))}
    IN  [d \in hit |-> json_loads(redis_get(st, redis_key(d)))]

\* int(query.get("days", [7])[0])
days_param(q) == IF q = << >> THEN DefaultDays ELSE q[1]

\* do_GET only reads the store and the clock; an ingest in progress has not
\* written yet, so a retrieval beside it sees what a retrieval before its arrival
\* sees.  Retrievals are therefore taken while no ingest is in progress.
Retrieve ==
    /\ Quiet
    /\ \A p \in Procs : pc[p] \in {"idle", "done"}
    /\ \E auth \in AuthHeaders, q \in DaysInputs :
        get_resp' =
            IF ~check_auth(API_KEY, auth)
            THEN [status |-> 401, auth |-> auth, days |-> q, body |-> Unauthorized]
            ELSE IF \E d \in visited_dates(clock, local_tz, days_param(q)) :
                       redis_get(store, redis_key(d)).kind = "garbage"
            THEN [status |-> 500, auth |-> auth, days |-> q, body |-> [none |-> TRUE]]
            ELSE [status |-> 200, auth |-> auth, days |-> q,
                  body |-> get_results(store, clock, local_tz, days_param(q))]
    /\ UNCHANGED <<API_KEY, local_tz, clock, store, pc, req, form_data, date_key,
                   existing, health_data, stamped, resp, overlapped, last_write,
                   max_stamp, completed>>
    /\ UNCHANGED statsVars

\* The client receives the response.
Deliver ==
    /\ ~Quiet
    /\ resp' = NoResponse
    /\ get_resp' = NoGetResponse
    /\ UNCHANGED <<API_KEY, local_tz, clock, store, pc, req, form_data, date_key,
                   existing, health_data, stamped, overlapped, last_write,
                   max_stamp, completed>>
    /\ UNCHANGED statsVars

\* Time passes.
Tick ==
    /\ Quiet
    /\ clock + TickHours <= MaxTicks * TickHours
    /\ clock' = clock + TickHours
    /\ UNCHANGED <<API_KEY, local_tz, store, pc, req, form_data, date_key, existing,
                   health_data, stamped, resp, get_resp, overlapped, last_write,
                   max_stamp, completed>>
    /\ UNCHANGED statsVars

----------------------------------------------------------------------------
\* The handlers, from an empty store.

StatsOff ==
    /\ phase = "off"
    /\ raw = << >>
    /\ key = << >>
    /\ values = << >>
    /\ result = [none |-> TRUE]

HandlersIdle(st) ==
    /\ clock = 0
    /\ store = st
    /\ pc = [p \in Procs |-> "idle"]
    /\ req = [p \in Procs |-> NoRequest]
    /\ form_data = [p \in Procs |-> << >>]
    /\ date_key = [p \in Procs |-> NoDate]
    /\ existing = [p \in Procs |-> None]
    /\ health_data = [p \in Procs |-> EmptyDict]
    /\ stamped = [p \in Procs |-> 0]
    /\ resp = NoResponse
    /\ get_resp = NoGetResponse
    /\ overlapped = FALSE
    /\ last_write = EmptyDict
    /\ max_stamp = EmptyDict
    /\ completed = {}

\* The secret may be unset; the host's local time is UTC or Pacific.
Configs ==
    /\ API_KEY \in {"", "k1"}
    /\ local_tz \in {0, PacificOffset}

Init == Configs /\ HandlersIdle(EmptyDict) /\ StatsOff

Next ==
    \/ \E p \in Procs : Arrive(p)
    \/ \E p \in Procs : Authenticate(p)
    \/ \E p \in Procs : Get(p)
    \/ \E p \in Procs : Merge(p)
    \/ \E p \in Procs : Set(p)
    \/ Retrieve
    \/ Deliver
    \/ Tick

Spec == Init /\ [][Next]_vars

----------------------------------------------------------------------------
\* The handlers over a store that an outside writer has left text in.

rkFirst == redis_key(date_str(0, PacificOffset))

ExternalTexts == {EmptyText, GarbageText, ScalarText}

InitStore ==
    /\ Configs
    /\ \E x \in ExternalTexts : HandlersIdle(rkFirst :> x)
    /\ StatsOff

SpecStore == InitStore /\ [][Next]_vars

----------------------------------------------------------------------------
\* The statistics functions on enumerated inputs.

rMixed == <<" ","9","9",".","5"," ","\r","-","3","\n","\n","R","E","M","%","0","D","+","7">>
rDots == <<"1",".","2",".","3","\n",".","\n","1","2","0",".">>

RawInputs == {rHeart, rHeartB, rSteps, rSleepy, rSys, rDia, rMixed, rDots, << >>}

SampleSet ==
    {Num(n * Scale) : n \in {65, 99, 100, 120, 140, 160}}
        \cup {Text(t) : t \in {sCore, sREM, sDeep, sAwake}}

SeqsUpTo(S, n) == UNION {[1..k -> S] : k \in 0..n}

MetricNames == {fHeartRate, fSteps, fSleep, sBloodGlucose}

InitStats ==
    /\ API_KEY = ""
    /\ local_tz = 0
    /\ HandlersIdle(EmptyDict)
    /\ key \in MetricNames
    /\ result = [none |-> TRUE]
    /\ \/ phase = "raw" /\ raw \in RawInputs /\ values = << >>
       \/ phase = "parsed" /\ raw = << >> /\ values \in SeqsUpTo(SampleSet, MaxLen)

ParseStep ==
    /\ phase = "raw"
    /\ values' = parse_values(raw)
    /\ phase' = "parsed"
    /\ UNCHANGED <<raw, key, result>>
    /\ UNCHANGED handlerVars

StatsStep ==
    /\ phase = "parsed"
    /\ result' = compute_stats(values, key)
    /\ phase' = "stats"
    /\ UNCHANGED <<raw, key, values>>
    /\ UNCHANGED handlerVars

ZonesStep ==
    /\ phase = "parsed"
    /\ result' = compute_hr_zones(values)
    /\ phase' = "zones"
    /\ UNCHANGED <<raw, key, values>>
    /\ UNCHANGED handlerVars

NextStats == ParseStep \/ StatsStep \/ ZonesStep

SpecStats == InitStats /\ [][NextStats]_vars

----------------------------------------------------------------------------
\* Properties of the handlers (Spec, SpecStore).

AllIdle == \A p \in Procs : pc[p] \in {"idle", "done"}

\* The record under a storage key (empty when there is none).
StoredRecord(rk) == LoadOrEmpty(redis_get(store, rk))

IsPressureField(name) == IsSystolic(name) \/ IsDiastolic(name)

\* The summary do_POST computes from one submitted field.
FieldSummary(f) == compute_stats(parse_values(Head(f.values)), f.name)

\* About to write: the prior record is the one still in the store.
Writing(p) == pc[p] = "set" /\ ~overlapped

\* Every key of the prior record that the request does not touch keeps its value.
FrameKept(p) ==
    LET prior == StoredRecord(redis_key(date_key[p]))
        new   == health_data[p]
    IN  \A k \in DOMAIN prior :
            k \notin FieldNames(form_data[p]) \cup {sBloodPressure, sUpdated}
                => k \in DOMAIN new /\ new[k] = prior[k]

\* Every submitted field outside `except` that is no blood-pressure field holds
\* its newly computed summary.
Overwritten(p, except) ==
    LET form == form_data[p]
        new  == health_data[p]
    IN  \A i \in DOMAIN form :
            ~IsPressureField(form[i].name) /\ form[i].name \notin except
                => form[i].name \in DOMAIN new
                   /\ new[form[i].name] = FieldSummary(form[i])

\* C1 as stated: an ingest handled alone writes a record that keeps every prior
\* key it does not submit (other than bloodpressure and _updated) and holds, for
\* every submitted non-blood-pressure field, the summary computed from it.
C1_AsStated ==
    \A p \in Procs : Writing(p) => FrameKept(p) /\ Overwritten(p, {})

\* C1 amended: the same, except that a submitted field named _updated does not
\* hold its summary: the key holds the timestamp of the request.
C1_MergeFrame ==
    \A p \in Procs :
        Writing(p) =>
            /\ existing[p] = redis_get(store, redis_key(date_key[p]))
            /\ FrameKept(p)
            /\ Overwritten(p, {sUpdated})
            /\ sUpdated \in DOMAIN health_data[p]
            /\ health_data[p][sUpdated] = isoformat(stamped[p])

\* An ingest alone is about to write over a prior record of which it keeps one
\* key and replaces the value of another.
C1_Witness ==
    \E p \in Procs :
        /\ Writing(p)
        /\ LET prior == StoredRecord(redis_key(date_key[p]))
               names == FieldNames(form_data[p])
           IN  /\ \E k \in DOMAIN prior : k \notin names \cup {sBloodPressure, sUpdated}
               /\ \E k \in DOMAIN prior \cap names :
                      k # sUpdated /\ health_data[p][k] # prior[k]

HasUpdated(rk) == store[rk].kind = "json" /\ sUpdated \in DOMAIN store[rk].doc

\* C2 as stated: every stored record has _updated, and with no ingest in
\* progress it is the greatest timestamp of any ingest that has written.
C2_AsStated ==
    \A rk \in DOMAIN store :
        /\ HasUpdated(rk)
        /\ AllIdle => store[rk].doc[sUpdated] = isoformat(max_stamp[rk])

\* C2 amended: every stored record has _updated, its value is the timestamp
\* taken by the ingest whose write reached the store last, and it is the
\* greatest timestamp written whenever no two ingests have overlapped.
C2_UpdatedIsLastWrite ==
    \A rk \in DOMAIN store :
        /\ HasUpdated(rk)
        /\ rk \in DOMAIN last_write
        /\ store[rk].doc[sUpdated] = isoformat(last_write[rk])
        /\ (AllIdle /\ ~overlapped)
               => store[rk].doc[sUpdated] = isoformat(max_stamp[rk])

\* Two overlapping ingests have finished and the later timestamp was
\* written first.
C2_Witness ==
    /\ AllIdle
    /\ overlapped
    /\ \E rk \in DOMAIN store : last_write[rk] < max_stamp[rk]

\* C3: a request submitting a systolic and a diastolic field writes their
\* paired analysis under bloodpressure, and nothing under either field name.
C3_AsStated ==
    \A p \in Procs :
        pc[p] = "set" =>
            LET form == form_data[p]
                new  == health_data[p]
            IN  \A i, j \in DOMAIN form :
                    IsSystolic(form[i].name) /\ IsDiastolic(form[j].name) =>
                        /\ sBloodPressure \in DOMAIN new
                        /\ new[sBloodPressure] =
                               compute_blood_pressure_stats(
                                   parse_values(Head(form[i].values)),
                                   parse_values(Head(form[j].values)))
                        /\ form[i].name \notin DOMAIN new
                        /\ form[j].name \notin DOMAIN new

\* The bearer credential matches the configured secret, or no secret is set.
Authorized(auth) == API_KEY = "" \/ auth = "Bearer " \o API_KEY

\* C4: a request is let through exactly when it is authorized; an
\* unauthorized ingest is answered 401 {error: unauthorized}, the store is left
\* as it was and the handler does nothing more.
C4_Authorization ==
    [][ /\ \A p \in Procs :
              (pc[p] = "auth" /\ pc'[p] # "auth") =>
                  IF Authorized(req[p].auth)
                  THEN pc'[p] = "get" /\ resp' = NoResponse
                  ELSE /\ pc'[p] = "done"
                       /\ resp' = [proc |-> p, status |-> 401, body |-> Unauthorized]
                       /\ store' = store
                       /\ existing' = existing
                       /\ health_data' = health_data
        /\ (get_resp = NoGetResponse /\ get_resp' # NoGetResponse) =>
              IF Authorized(get_resp'.auth)
              THEN get_resp'.status # 401
              ELSE get_resp'.status = 401 /\ get_resp'.body = Unauthorized
      ]_vars

\* An unauthorized ingest has been turned away from a store that holds a record.
C4_Witness ==
    /\ resp.status = 401
    /\ store # EmptyDict

\* A request that read a prior value that is no daily record.
ReadUnreadable(p) == \/ ~Truthy(existing[p])
                     \/ existing[p].kind # "json"

\* C5: a prior value that cannot be read as a daily record is treated as
\* empty: the request does not fail and writes the new summaries and _updated.
C5_AsStated ==
    /\ resp.status # 500
    /\ \A p \in Procs :
           (pc[p] = "set" /\ ReadUnreadable(p)) =>
               health_data[p] = merge_record(EmptyDict, form_data[p], stamped[p])

\* The N trailing Pacific business dates ending at the ingest's storage date.
PacificDates(n) ==
    {[day |-> date_str(clock, PacificOffset).day - i] : i \in 0..(n - 1)}

\* C6: a retrieval with days = N >= 1 returns exactly the stored records of
\* the N trailing Pacific business dates, each unchanged.
C6_AsStated ==
    (get_resp.status = 200 /\ days_param(get_resp.days) >= 1) =>
        LET hit == {d \in PacificDates(days_param(get_resp.days)) :
                       redis_key(d) \in DOMAIN store}
        IN  /\ DOMAIN get_resp.body = hit
            /\ \A d \in hit : get_resp.body[d] = store[redis_key(d)].doc

\* The field names a successful ingest stores a summary under.
StoredNames(names) == {n \in names : ~IsPressureField(n)}

\* C7: as long as no two ingests have overlapped, the stored record holds the
\* keys of every successful ingest for its date (the lost update needs an
\* interleaving: C7_LostUpdate).
C7_SerialKeepsKeys ==
    ~overlapped =>
        \A c \in completed :
            /\ c.rk \in DOMAIN store
            /\ \A n \in StoredNames(c.names) : n \in DOMAIN store[c.rk].doc

\* Two ingests of disjoint keys for one date have both succeeded, and the
\* stored record lacks a key of one of them.
C7_LostUpdate ==
    /\ AllIdle
    /\ \E c1, c2 \in completed :
           /\ c1.rk = c2.rk
           /\ c1.names \cap c2.names = {}
           /\ \E n \in StoredNames(c1.names) : n \notin DOMAIN store[c1.rk].doc
           /\ \A n \in StoredNames(c2.names) : n \in DOMAIN store[c2.rk].doc

----------------------------------------------------------------------------
\* Properties of the statistics functions (SpecStats).

NumericAt(vals) == {i \in DOMAIN vals : vals[i].t = "num"}

\* The numeric samples v with lo <= v < hi, in beats per minute.
InZone(vals, lo, hi) ==
    Cardinality({i \in NumericAt(vals) : lo * Scale <= vals[i].v /\ vals[i].v < hi * Scale})

Below(vals, hi) == Cardinality({i \in NumericAt(vals) : vals[i].v < hi * Scale})

AtLeast(vals, lo) == Cardinality({i \in NumericAt(vals) : vals[i].v >= lo * Scale})

\* C8: each numeric sample is counted in exactly one of rest (<100), light
\* [100,120), moderate [120,140), hard [140,160), max (>=160); the counts sum to
\* the number of numeric samples; training_load = moderate + hard + max and
\* high_intensity = hard + max.
C8_ZoneCounts ==
    (phase = "zones" /\ NumericAt(values) # {}) =>
        /\ DOMAIN result = {"zones", "zone_pct", "training_load", "high_intensity"}
        /\ result.zones = [rest |-> Below(values, 100),
                           light |-> InZone(values, 100, 120),
                           moderate |-> InZone(values, 120, 140),
                           hard |-> InZone(values, 140, 160),
                           max |-> AtLeast(values, 160)]
        /\ result.zones.rest + result.zones.light + result.zones.moderate
               + result.zones.hard + result.zones.max = Cardinality(NumericAt(values))
        /\ result.training_load =
               result.zones.moderate + result.zones.hard + result.zones.max
        /\ result.high_intensity = result.zones.hard + result.zones.max

\* Samples on the boundaries 100, 140 and 160 have been counted.
C8_Witness ==
    /\ phase = "zones"
    /\ values = <<Num(100 * Scale), Num(140 * Scale), Num(160 * Scale)>>
    /\ result.zones = [rest |-> 0, light |-> 1, moderate |-> 0, hard |-> 1, max |-> 1]

HeartScenario == phase = "stats" /\ raw = rHeart /\ Lower(key) = sHeartRate

HeartSummary(rest) ==
    /\ DOMAIN result = {"avg", "min", "max", "count", "hr_zones"}
    /\ result.avg = 94 * Scale
    /\ result.min = 65 * Scale
    /\ result.max = 145 * Scale
    /\ result.count = 3
    /\ result.hr_zones.zones =
           [rest |-> rest, light |-> 0, moderate |-> 0, hard |-> 1, max |-> 0]
    /\ result.hr_zones.training_load = 1
    /\ result.hr_zones.high_intensity = 1

\* C9 as stated: "65\n72\n145\n" under heartrate gives avg 94.0, min 65, max
\* 145, count 3, zones rest 1, light 0, moderate 0, hard 1, max 0, training_load
\* 1 and high_intensity 1.
C9_AsStated == HeartScenario => HeartSummary(1)

\* C9 amended: the same summary with zones rest 2 (65 and 72 are both below 100).
C9_HeartScenario == HeartScenario => HeartSummary(2)

C9_Witness == HeartScenario /\ result.count = 3

\* C10: for a metric other than sleep and bloodglucose, a sequence with no
\* numeric sample gives only count, the number of all samples; otherwise count
\* is the number of numeric samples.
C10_CountOnly ==
    (phase = "stats" /\ Strip(Lower(key)) \notin {sSleep, sBloodGlucose}) =>
        IF NumericAt(values) = {}
        THEN result = [count |-> Len(values)]
        ELSE "count" \in DOMAIN result
             /\ result.count = Cardinality(NumericAt(values))

\* Text samples only, under heartrate: the count is the number of samples.
C10_Witness ==
    /\ phase = "stats"
    /\ Lower(key) = sHeartRate
    /\ Len(values) >= 2
    /\ NumericAt(values) = {}
    /\ result = [count |-> Len(values)]

====
